---------------------------- MODULE Spec2Model ----------------------------
(***************************************************************************)
(* A model of src/setrow-rn-push/index.js, the SetrowRNPush client: the    *)
(* configuration store, the permission and token manager, the listener     *)
(* registry and the tap handling.                                          *)
(*                                                                         *)
(* Every public method and every listener callback is an asynchronous      *)
(* task.  A task runs atomically from one suspension point (an await on a  *)
(* native call: AsyncStorage, firebase, DeviceInfo, fetch) to the next;    *)
(* promise continuations that need no native call (a resolve followed by   *)
(* its then) run in the same step, as JavaScript's microtask queue runs    *)
(* them before any native completion is delivered.  A native call takes    *)
(* effect when it is issued (the native queues are serial) and its         *)
(* completion, success or failure, is delivered at the task's next step.   *)
(***************************************************************************)
EXTENDS Integers, Sequences, FiniteSets, TLC

(***************************************************************************)
(* Bounds of the model.                                                    *)
(***************************************************************************)
\* tasks (method calls and listener invocations) started in one run
MaxTasks == 2
\* tasks in flight at the same time
MaxInFlight == 1
\* native calls that fail in one run
MaxFaults == 1

VARIABLES
    config,       \* #config, the in-memory configuration (index.js:11-16)
    store,        \* AsyncStorage: the items 'config', 'fcmToken', 'isSubscribed'
    platform,     \* Platform.OS
    fbToken,      \* the push library's current registration token
    initialOpen,  \* what firebase.notifications().getInitialNotification() reports
    listeners,    \* callbacks attached to each of the five library events
    tasks,        \* the asynchronous tasks, in the order they were started
    faults,       \* native calls that have failed so far
    limit,        \* how many tasks the run may start, and how many may overlap
    logs          \* logs[i]: the sendLog call made by task i (index.js:520-541)

vars == <<config, store, platform, fbToken, initialOpen, listeners, tasks, faults, limit, logs>>

(***************************************************************************)
(* JavaScript values.  A value is a record of its typeof and its text      *)
(* (a sequence of one-character strings), so that typeof tests and the     *)
(* email pattern are computed as the code computes them.                   *)
(***************************************************************************)
Str(s) == [type |-> "string", v |-> s]
Num(s) == [type |-> "number", v |-> s]
Fun(s) == [type |-> "function", v |-> s]
Absent == [type |-> "absent", v |-> <<>>]

\* JavaScript null, as returned by AsyncStorage.getItem for a missing item
NULL == "<null>"

(***************************************************************************)
(* validateEmail (index.js:77-80): the pattern, matched on the lower-cased *)
(* text.                                                                   *)
(***************************************************************************)
LowerLetters == <<"a","b","c","d","e","f","g","h","i","j","k","l","m",
                  "n","o","p","q","r","s","t","u","v","w","x","y","z">>
UpperLetters == <<"A","B","C","D","E","F","G","H","I","J","K","L","M",
                  "N","O","P","Q","R","S","T","U","V","W","X","Y","Z">>
Letters == {LowerLetters[i] : i \in 1..26} \cup {UpperLetters[i] : i \in 1..26}
Digits == {"0","1","2","3","4","5","6","7","8","9"}
\* the characters excluded by [^<>()\[\]\\.,;:\s@"]
Special == {"<", ">", "(", ")", "[", "]", "\\", ".", ",", ";", ":",
            " ", "\t", "\n", "\r", "@", "\""}
LineTerminators == {"\n", "\r"}

ToLowerChar(c) ==
    IF \E i \in 1..26 : UpperLetters[i] = c
    THEN LowerLetters[CHOOSE i \in 1..26 : UpperLetters[i] = c]
    ELSE c

toLowerCase(s) == [i \in 1..Len(s) |-> ToLowerChar(s[i])]

RECURSIVE Split(_, _)
\* the parts of s between the occurrences of sep
Split(s, sep) ==
    IF \A i \in 1..Len(s) : s[i] # sep
    THEN <<s>>
    ELSE LET i == CHOOSE j \in 1..Len(s) :
                      s[j] = sep /\ \A k \in 1..(j-1) : s[k] # sep
         IN  <<SubSeq(s, 1, i-1)>> \o Split(SubSeq(s, i+1, Len(s)), sep)

AllIn(s, S) == \A i \in 1..Len(s) : s[i] \in S
NoneIn(s, S) == \A i \in 1..Len(s) : s[i] \notin S

\* [^...]+(\.[^...]+)*
MatchDotAtoms(s) ==
    LET parts == Split(s, ".")
    IN  \A i \in 1..Len(parts) : Len(parts[i]) >= 1 /\ NoneIn(parts[i], Special)

\* ".+"
MatchQuoted(s) ==
    /\ Len(s) >= 3
    /\ s[1] = "\""
    /\ s[Len(s)] = "\""
    /\ NoneIn(SubSeq(s, 2, Len(s)-1), LineTerminators)

\* \[[0-9]{1,3}\.[0-9]{1,3}\.[0-9]{1,3}\.[0-9]{1,3}\]
MatchIpLiteral(s) ==
    /\ Len(s) >= 2
    /\ s[1] = "["
    /\ s[Len(s)] = "]"
    /\ LET parts == Split(SubSeq(s, 2, Len(s)-1), ".")
       IN  /\ Len(parts) = 4
           /\ \A i \in 1..4 : Len(parts[i]) \in 1..3 /\ AllIn(parts[i], Digits)

\* ([a-zA-Z\-0-9]+\.)+[a-zA-Z]{2,}
MatchDomainName(s) ==
    LET parts == Split(s, ".")
        n == Len(parts)
    IN  /\ n >= 2
        /\ \A i \in 1..(n-1) :
              Len(parts[i]) >= 1 /\ AllIn(parts[i], Letters \cup Digits \cup {"-"})
        /\ Len(parts[n]) >= 2
        /\ AllIn(parts[n], Letters)

MatchEmailPattern(s) ==
    \E i \in 1..Len(s) :
        /\ s[i] = "@"
        /\ LET local == SubSeq(s, 1, i-1)
               domain == SubSeq(s, i+1, Len(s))
           IN  /\ MatchDotAtoms(local) \/ MatchQuoted(local)
               /\ MatchIpLiteral(domain) \/ MatchDomainName(domain)

\* re.test(String(email).toLowerCase()); String() of a value is its text
validateEmail(email) == MatchEmailPattern(toLowerCase(email.v))

\* typeof email !== 'string' || (email.length > 0 && !this.validateEmail(email));
\* .length of a number is undefined, and undefined > 0 is false
RejectsEmail(email) ==
    \/ email.type # "string"
    \/ (Len(email.v) > 0 /\ ~validateEmail(email))

(***************************************************************************)
(* Tasks.  tasks[i] is the i-th task started.  pc is the suspension point  *)
(* the task waits at ("done": its code has run to its end; "dead": an      *)
(* await threw inside an async function nobody awaits, so the code stopped *)
(* and the promise the caller holds, if any, stays pending).  ok is the    *)
(* outcome of the native call the task waits for.  st and val are the      *)
(* state and value of the promise returned to the caller.  eff lists the   *)
(* native calls and callbacks the task has made, in order.  after is the   *)
(* set of tasks that had stopped when this one started.  http is the state *)
(* of the request the task sent without waiting for it ("none" when it     *)
(* sent none; "pending", then "ok" or "failed").                           *)
(***************************************************************************)
\* one more slot than MaxTasks: the overlapping runs start one more task
TaskIds == 1..(MaxTasks + 1)

NoTask == [op |-> "none", pc |-> "idle", arg |-> NULL, tok |-> NULL,
           flag |-> NULL, ok |-> TRUE, st |-> "none", val |-> NULL,
           eff |-> <<>>, after |-> {}, http |-> "none"]

Started(i) == tasks[i].op # "none"
Stopped(i) == tasks[i].pc \in {"done", "dead"}
InFlight(i) == Started(i) /\ ~Stopped(i)
NumStarted == Cardinality({i \in TaskIds : Started(i)})
NumInFlight == Cardinality({i \in TaskIds : InFlight(i)})

\* n more tasks can start now
CanStart(n) == NumStarted + n <= limit.started /\ NumInFlight + n <= limit.inflight

NewTask(op, arg) ==
    [NoTask EXCEPT !.op = op, !.arg = arg, !.st = "pending",
                   !.after = {j \in TaskIds : Started(j) /\ Stopped(j)}]

Did(t, k, x, y) == [t EXCEPT !.eff = Append(@, [k |-> k, x |-> x, y |-> y])]
Goto(t, pc, ok) == [t EXCEPT !.pc = pc, !.ok = ok]
Settle(t, st, val) == [t EXCEPT !.st = st, !.val = val, !.pc = "done"]
Finish(t) == [t EXCEPT !.pc = "done"]
Die(t) == [t EXCEPT !.pc = "dead"]

\* this.sendRequest(url, {}, reqBody) whose promise nobody waits for
SendUnawaited(t, x, y) == [Did(t, "http", x, y) EXCEPT !.http = "pending"]

\* a native call completes with outcome ok; at most MaxFaults of them fail
Native(ok) ==
    /\ ok \/ faults < MaxFaults
    /\ faults' = IF ok THEN faults ELSE faults + 1

Count(t, k, x) == Cardinality({n \in 1..Len(t.eff) : t.eff[n].k = k /\ t.eff[n].x = x})

(***************************************************************************)
(* AsyncStorage.  The three items the program keeps.                       *)
(***************************************************************************)
removeItemKeepingItem(st, key, ok) == st

setItem(st, key, value, ok) == IF ok THEN [st EXCEPT ![key] = value] ELSE st
removeItem(st, key, ok) == IF ok THEN [st EXCEPT ![key] = NULL] ELSE st
getItem(st, key, ok) == IF ok THEN st[key] ELSE NULL

\* the push tokens the library can hand out
Tokens == {"t1", "t2"}

(***************************************************************************)
(* getToken (index.js:173-201) and requestPermissionAndGetToken            *)
(* (index.js:125-132), which runs requestPermission (index.js:155-167)     *)
(* and then getToken.                                                      *)
(***************************************************************************)
\* null and the empty string are falsy
Falsy(v) == v = NULL \/ v = ""

CacheMissAlways(v) == TRUE

\* if (!fcmToken) after the read of the cached token
CacheMiss(v) == Falsy(v)

\* if (fcmToken) after the library's answer
TokenObtained(v) == ~Falsy(v)

\* firebase.messaging().getToken(): the current token, or a newly generated one
\* (NULL when none can be generated)
LibraryTokens == IF fbToken = NULL THEN Tokens \cup {NULL} ELSE {fbToken}

\* the synchronous start of getToken: setItem('isSubscribed', 'true') is issued
BeginGetToken(t, ok) ==
    Goto(Did(t, "setItem", "isSubscribed", "true"), "gt_setSub", ok)

StartGetToken ==
    /\ CanStart(1)
    /\ \E ok \in BOOLEAN :
        /\ Native(ok)
        /\ tasks' = [tasks EXCEPT ![NumStarted + 1] =
                        BeginGetToken(NewTask("getToken", NULL), ok)]
        /\ store' = setItem(store, "isSubscribed", "true", ok)
    /\ UNCHANGED <<config, platform, fbToken, initialOpen, listeners, limit, logs>>

StartRequestPermissionAndGetToken ==
    /\ CanStart(1)
    /\ \E granted \in BOOLEAN :
        tasks' = [tasks EXCEPT ![NumStarted + 1] =
                    Goto(Did(NewTask("requestPermissionAndGetToken", NULL),
                             "firebase", "requestPermission", ""),
                         "rp_request", granted)]
    /\ UNCHANGED <<config, store, platform, fbToken, initialOpen, listeners, faults, limit, logs>>

PermissionOutcomeIgnoringDenial(t, ok) ==
    BeginGetToken(Did(t, "permission", IF t.ok THEN "Authorized" ELSE "Denied", ""), ok)

\* requestPermission settles: 'Authorized' starts getToken, 'Denied' rejects
PermissionOutcome(t, ok) ==
    IF t.ok
    THEN BeginGetToken(Did(t, "permission", "Authorized", ""), ok)
    ELSE Settle(Did(t, "permission", "Denied", ""), "rejected", "Denied")

PermissionSettled(i) ==
    /\ tasks[i].pc = "rp_request"
    /\ \E ok \in BOOLEAN :
        /\ IF tasks[i].ok THEN Native(ok) ELSE ok /\ UNCHANGED faults
        /\ tasks' = [tasks EXCEPT ![i] = PermissionOutcome(@, ok)]
        /\ store' = IF tasks'[i].pc = "gt_setSub"
                    THEN setItem(store, "isSubscribed", "true", ok)
                    ELSE store
    /\ UNCHANGED <<config, platform, fbToken, initialOpen, listeners, limit, logs>>

\* await setItem('isSubscribed') ; getItem('fcmToken') is issued
GetTokenReadCache(i) ==
    /\ tasks[i].pc = "gt_setSub"
    /\ IF tasks[i].ok
       THEN \E ok \in BOOLEAN :
            /\ Native(ok)
            /\ tasks' = [tasks EXCEPT ![i] =
                  Goto([Did(@, "getItem", "fcmToken", "")
                            EXCEPT !.tok = getItem(store, "fcmToken", ok)],
                       "gt_getItem", ok)]
       ELSE tasks' = [tasks EXCEPT ![i] = Die(@)] /\ UNCHANGED faults
    /\ UNCHANGED <<config, store, platform, fbToken, initialOpen, listeners, limit, logs>>

\* let fcmToken = await getItem('fcmToken'); if (!fcmToken) ask the library,
\* else resolve with the cached token
GetTokenCheckCache(i) ==
    /\ tasks[i].pc = "gt_getItem"
    /\ IF ~tasks[i].ok
       THEN tasks' = [tasks EXCEPT ![i] = Die(@)] /\ UNCHANGED <<faults, fbToken>>
       ELSE IF CacheMiss(tasks[i].tok)
       THEN \E ok \in BOOLEAN : \E t \in LibraryTokens :
            /\ Native(ok)
            /\ fbToken' = IF ok THEN t ELSE fbToken
            /\ tasks' = [tasks EXCEPT ![i] =
                  Goto([Did(@, "firebase", "getToken", "")
                            EXCEPT !.tok = IF ok THEN t ELSE NULL],
                       "gt_fbGetToken", ok)]
       ELSE /\ tasks' = [tasks EXCEPT ![i] = Settle(@, "resolved", @.tok)]
            /\ UNCHANGED <<faults, fbToken>>
    /\ UNCHANGED <<config, store, platform, initialOpen, listeners, limit, logs>>

\* fcmToken = await firebase.messaging().getToken(); if (fcmToken) cache it,
\* else reject(false)
GetTokenCacheNew(i) ==
    /\ tasks[i].pc = "gt_fbGetToken"
    /\ IF ~tasks[i].ok
       THEN tasks' = [tasks EXCEPT ![i] = Die(@)] /\ UNCHANGED <<faults, store>>
       ELSE IF ~TokenObtained(tasks[i].tok)
       THEN /\ tasks' = [tasks EXCEPT ![i] = Settle(@, "rejected", "false")]
            /\ UNCHANGED <<faults, store>>
       ELSE \E ok \in BOOLEAN :
            /\ Native(ok)
            /\ store' = setItem(store, "fcmToken", tasks[i].tok, ok)
            /\ tasks' = [tasks EXCEPT ![i] =
                  Goto(Did(@, "setItem", "fcmToken", @.tok), "gt_setItem", ok)]
    /\ UNCHANGED <<config, platform, fbToken, initialOpen, listeners, limit, logs>>

\* await setItem('fcmToken') ; getDeviceInfo() is issued
GetTokenDeviceInfo(i) ==
    /\ tasks[i].pc = "gt_setItem"
    /\ IF tasks[i].ok
       THEN \E ok \in BOOLEAN :
            /\ Native(ok)
            /\ tasks' = [tasks EXCEPT ![i] =
                  Goto(Did(@, "deviceInfo", "", ""), "gt_deviceInfo", ok)]
       ELSE tasks' = [tasks EXCEPT ![i] = Die(@)] /\ UNCHANGED faults
    /\ UNCHANGED <<config, store, platform, fbToken, initialOpen, listeners, limit, logs>>

RegisterOutcomeAwaited(t) ==
    Goto(SendUnawaited(t, "register", t.tok), "gt_http", TRUE)

\* this.sendRequest(register.php ...).then(res => console.log(res)) inside the
\* device-info callback, then resolve(fcmToken)
RegisterOutcome(t) == Settle(SendUnawaited(t, "register", t.tok), "resolved", t.tok)

\* the device info arrives: the register request is sent, not awaited, and
\* getToken resolves with the new token
GetTokenRegister(i) ==
    /\ tasks[i].pc = "gt_deviceInfo"
    /\ tasks' = [tasks EXCEPT ![i] = IF @.ok THEN RegisterOutcome(@) ELSE Die(@)]
    /\ UNCHANGED <<config, store, platform, fbToken, initialOpen, listeners, faults, limit, logs>>

(***************************************************************************)
(* unsubscribe (index.js:468-491).                                         *)
(***************************************************************************)
HasTokenToDeleteAlways(v) == TRUE

\* typeof fcmTokenToDelete === "string" && fcmTokenToDelete.length > 0
HasTokenToDelete(v) == v # NULL /\ v # ""

\* the synchronous start: getItem('fcmToken') is issued
StartUnsubscribe ==
    /\ CanStart(1)
    /\ \E ok \in BOOLEAN :
        /\ Native(ok)
        /\ tasks' = [tasks EXCEPT ![NumStarted + 1] =
              Goto([Did(NewTask("unsubscribe", NULL), "getItem", "fcmToken", "")
                        EXCEPT !.tok = getItem(store, "fcmToken", ok)],
                   "un_getItem", ok)]
    /\ UNCHANGED <<config, store, platform, fbToken, initialOpen, listeners, limit, logs>>

\* fcmTokenToDelete arrives; firebase.messaging().deleteToken() is issued
UnsubscribeDeleteToken(i) ==
    /\ tasks[i].pc = "un_getItem"
    /\ IF tasks[i].ok
       THEN \E ok \in BOOLEAN :
            /\ Native(ok)
            /\ fbToken' = IF ok THEN NULL ELSE fbToken
            /\ tasks' = [tasks EXCEPT ![i] =
                  Goto(Did(@, "firebase", "deleteToken", ""), "un_delete", ok)]
       ELSE tasks' = [tasks EXCEPT ![i] = Die(@)] /\ UNCHANGED <<faults, fbToken>>
    /\ UNCHANGED <<config, store, platform, initialOpen, listeners, limit, logs>>

\* .then(() => AsyncStorage.removeItem('fcmToken'))
UnsubscribeRemoveItem(i) ==
    /\ tasks[i].pc = "un_delete"
    /\ IF tasks[i].ok
       THEN \E ok \in BOOLEAN :
            /\ Native(ok)
            /\ store' = removeItem(store, "fcmToken", ok)
            /\ tasks' = [tasks EXCEPT ![i] =
                  Goto(Did(@, "removeItem", "fcmToken", ""), "un_remove", ok)]
       ELSE /\ tasks' = [tasks EXCEPT ![i] = Settle(@, "rejected", "error")]
            /\ UNCHANGED <<faults, store>>
    /\ UNCHANGED <<config, platform, fbToken, initialOpen, listeners, limit, logs>>

\* .then(() => AsyncStorage.setItem('isSubscribed', 'false'))
UnsubscribeClearFlag(i) ==
    /\ tasks[i].pc = "un_remove"
    /\ IF tasks[i].ok
       THEN \E ok \in BOOLEAN :
            /\ Native(ok)
            /\ store' = setItem(store, "isSubscribed", "false", ok)
            /\ tasks' = [tasks EXCEPT ![i] =
                  Goto(Did(@, "setItem", "isSubscribed", "false"), "un_setSub", ok)]
       ELSE /\ tasks' = [tasks EXCEPT ![i] = Settle(@, "rejected", "error")]
            /\ UNCHANGED <<faults, store>>
    /\ UNCHANGED <<config, platform, fbToken, initialOpen, listeners, limit, logs>>

\* .then(() => { if a token was read, send the DELETE request and wait for it;
\* else go on with a message }).then(res => resolve())
UnsubscribeReport(i) ==
    /\ tasks[i].pc = "un_setSub"
    /\ IF ~tasks[i].ok
       THEN /\ tasks' = [tasks EXCEPT ![i] = Settle(@, "rejected", "error")]
            /\ UNCHANGED faults
       ELSE IF HasTokenToDelete(tasks[i].tok)
       THEN \E ok \in BOOLEAN :
            /\ Native(ok)
            /\ tasks' = [tasks EXCEPT ![i] =
                  Goto(Did(@, "http", "delete", @.tok), "un_http", ok)]
       ELSE /\ tasks' = [tasks EXCEPT ![i] = Settle(@, "resolved", "")]
            /\ UNCHANGED faults
    /\ UNCHANGED <<config, store, platform, fbToken, initialOpen, listeners, limit, logs>>

\* the DELETE request settles: .then(res => resolve()) or .catch(err => reject(err))
UnsubscribeSettle(i) ==
    /\ tasks[i].pc = "un_http"
    /\ tasks' = [tasks EXCEPT ![i] =
          IF @.ok THEN Settle(@, "resolved", "") ELSE Settle(@, "rejected", "error")]
    /\ UNCHANGED <<config, store, platform, fbToken, initialOpen, listeners, faults, limit, logs>>

(***************************************************************************)
(* The token-refresh listener (index.js:379-399).                          *)
(***************************************************************************)
TokenChangedAlways(old, new) == TRUE

\* if (oldFcmToken !== newFcmToken)
TokenChanged(old, new) == old # new

\* isSubscribed === 'true'
IsSubscribedFlag(v) == v = "true"

\* The library generates the token t and calls every attached token-refresh
\* callback with it; each callback issues getItem('isSubscribed').
TokenRefreshEvent ==
    /\ listeners.tokenRefresh >= 1
    /\ CanStart(listeners.tokenRefresh)
    /\ \E t \in Tokens : \E oks \in [1..listeners.tokenRefresh -> BOOLEAN] :
        LET nfail == Cardinality({n \in DOMAIN oks : ~oks[n]})
        IN  /\ faults + nfail <= MaxFaults
            /\ faults' = faults + nfail
            /\ fbToken' = t
            /\ tasks' = [i \in TaskIds |->
                  IF i \in (NumStarted + 1)..(NumStarted + listeners.tokenRefresh)
                  THEN Goto([Did(NewTask("onTokenRefresh", t), "getItem", "isSubscribed", "")
                                EXCEPT !.flag = getItem(store, "isSubscribed", oks[i - NumStarted])],
                            "tr_getSub", oks[i - NumStarted])
                  ELSE tasks[i]]
    /\ UNCHANGED <<config, store, platform, initialOpen, listeners, limit, logs>>

\* isSubscribed arrives; when it is 'true', getItem("fcmToken") is issued
TokenRefreshReadCache(i) ==
    /\ tasks[i].pc = "tr_getSub"
    /\ IF ~tasks[i].ok
       THEN tasks' = [tasks EXCEPT ![i] = Die(@)] /\ UNCHANGED faults
       ELSE IF IsSubscribedFlag(tasks[i].flag)
       THEN \E ok \in BOOLEAN :
            /\ Native(ok)
            /\ tasks' = [tasks EXCEPT ![i] =
                  Goto([Did(@, "getItem", "fcmToken", "")
                            EXCEPT !.tok = getItem(store, "fcmToken", ok)],
                       "tr_getItem", ok)]
       ELSE tasks' = [tasks EXCEPT ![i] = Finish(@)] /\ UNCHANGED faults
    /\ UNCHANGED <<config, store, platform, fbToken, initialOpen, listeners, limit, logs>>

\* oldFcmToken arrives; when it differs from the new token, the new one is cached
TokenRefreshCompare(i) ==
    /\ tasks[i].pc = "tr_getItem"
    /\ IF ~tasks[i].ok
       THEN tasks' = [tasks EXCEPT ![i] = Die(@)] /\ UNCHANGED <<faults, store>>
       ELSE IF TokenChanged(tasks[i].tok, tasks[i].arg)
       THEN \E ok \in BOOLEAN :
            /\ Native(ok)
            /\ store' = setItem(store, "fcmToken", tasks[i].arg, ok)
            /\ tasks' = [tasks EXCEPT ![i] =
                  Goto(Did(@, "setItem", "fcmToken", @.arg), "tr_setItem", ok)]
       ELSE tasks' = [tasks EXCEPT ![i] = Finish(@)] /\ UNCHANGED <<faults, store>>
    /\ UNCHANGED <<config, platform, fbToken, initialOpen, listeners, limit, logs>>

\* await setItem("fcmToken") ; getDeviceInfo() is issued
TokenRefreshDeviceInfo(i) ==
    /\ tasks[i].pc = "tr_setItem"
    /\ IF tasks[i].ok
       THEN \E ok \in BOOLEAN :
            /\ Native(ok)
            /\ tasks' = [tasks EXCEPT ![i] =
                  Goto(Did(@, "deviceInfo", "", ""), "tr_deviceInfo", ok)]
       ELSE tasks' = [tasks EXCEPT ![i] = Die(@)] /\ UNCHANGED faults
    /\ UNCHANGED <<config, store, platform, fbToken, initialOpen, listeners, limit, logs>>

\* the device info arrives: the update request (PATCH) is sent, not awaited
TokenRefreshUpdate(i) ==
    /\ tasks[i].pc = "tr_deviceInfo"
    /\ tasks' = [tasks EXCEPT ![i] =
          IF @.ok THEN Finish(SendUnawaited(@, "update", @.arg)) ELSE Die(@)]
    /\ UNCHANGED <<config, store, platform, fbToken, initialOpen, listeners, faults, limit, logs>>

(***************************************************************************)
(* sendRequest (index.js:239-255) for a request nobody waits for: fetch    *)
(* answers or fails, some time after the caller has gone on, or never.     *)
(***************************************************************************)
RequestSettles(i) ==
    /\ tasks[i].http = "pending"
    /\ \E ok \in BOOLEAN :
        /\ Native(ok)
        /\ tasks' = [tasks EXCEPT ![i].http = IF ok THEN "ok" ELSE "failed"]
    /\ UNCHANGED <<config, store, platform, fbToken, initialOpen, listeners, limit, logs>>

(***************************************************************************)
(* The state after construction (index.js:11-21, 555) on a fresh install.  *)
(***************************************************************************)
DefaultConfig == [apiKey |-> Str(<<>>), userEmail |-> Str(<<>>),
                  bundleId |-> Str(<<>>), callbackAfterTap |-> Fun(<<"n","o","o","p">>)]

\* JSON.stringify(config): a function-valued property is left out
stringify(c) ==
    [c EXCEPT !.callbackAfterTap = IF @.type = "function" THEN Absent ELSE @]

\* the 'config' item when it was never written: getItem gives null
NullConfig == [apiKey |-> Absent, userEmail |-> Absent,
               bundleId |-> Absent, callbackAfterTap |-> Absent]

EmptyStore == [config |-> NullConfig, fcmToken |-> NULL, isSubscribed |-> NULL]

NoLog == [ev |-> "none", initial |-> FALSE, pc |-> "idle", ok |-> TRUE,
          key |-> Absent, tok |-> NULL, note |-> NULL]

NoListeners == [opened |-> 0, displayed |-> 0, notification |-> 0,
                message |-> 0, tokenRefresh |-> 0]

(***************************************************************************)
(* The token lifecycle, in a process whose init(config) has resolved: the  *)
(* configuration is valid and persisted and the five listeners are         *)
(* attached once.                                                          *)
(***************************************************************************)
InitializedConfig == [DefaultConfig EXCEPT !.apiKey = Str(<<"k">>)]

Init ==
    /\ config = InitializedConfig
    /\ store = [EmptyStore EXCEPT !.config = stringify(InitializedConfig)]
    /\ platform = "android"
    /\ fbToken = NULL
    /\ initialOpen = NULL
    /\ listeners = [e \in DOMAIN NoListeners |-> 1]
    /\ tasks = [i \in TaskIds |-> NoTask]
    /\ logs = [i \in TaskIds |-> NoLog]
    /\ faults = 0
    /\ limit = [started |-> MaxTasks, inflight |-> MaxInFlight]

Next ==
    \/ StartGetToken
    \/ StartRequestPermissionAndGetToken
    \/ StartUnsubscribe
    \/ TokenRefreshEvent
    \/ \E i \in TaskIds :
        \/ PermissionSettled(i)
        \/ GetTokenReadCache(i)
        \/ GetTokenCheckCache(i)
        \/ GetTokenCacheNew(i)
        \/ GetTokenDeviceInfo(i)
        \/ GetTokenRegister(i)
        \/ UnsubscribeDeleteToken(i)
        \/ UnsubscribeRemoveItem(i)
        \/ UnsubscribeClearFlag(i)
        \/ UnsubscribeReport(i)
        \/ UnsubscribeSettle(i)
        \/ TokenRefreshReadCache(i)
        \/ TokenRefreshCompare(i)
        \/ TokenRefreshDeviceInfo(i)
        \/ TokenRefreshUpdate(i)
        \/ RequestSettles(i)

Spec == Init /\ [][Next]_vars

\* the same program with room for one more task and one more overlapping task
InitOverlap ==
    /\ config = InitializedConfig
    /\ store = [EmptyStore EXCEPT !.config = stringify(InitializedConfig)]
    /\ platform = "android"
    /\ fbToken = NULL
    /\ initialOpen = NULL
    /\ listeners = [e \in DOMAIN NoListeners |-> 1]
    /\ tasks = [i \in TaskIds |-> NoTask]
    /\ logs = [i \in TaskIds |-> NoLog]
    /\ faults = 0
    /\ limit = [started |-> MaxTasks + 1, inflight |-> MaxInFlight + 1]

SpecOverlap == InitOverlap /\ [][Next]_vars

\* the same program in a process where an earlier getToken has obtained the
\* token "t1", cached it and registered it
InitSubscribed ==
    /\ config = InitializedConfig
    /\ store = [config |-> stringify(InitializedConfig), fcmToken |-> "t1",
                isSubscribed |-> "true"]
    /\ platform = "android"
    /\ fbToken = "t1"
    /\ initialOpen = NULL
    /\ listeners = [e \in DOMAIN NoListeners |-> 1]
    /\ tasks = [i \in TaskIds |-> NoTask]
    /\ logs = [i \in TaskIds |-> NoLog]
    /\ faults = 0
    /\ limit = [started |-> MaxTasks, inflight |-> MaxInFlight]

SpecSubscribed == InitSubscribed /\ [][Next]_vars

(***************************************************************************)
(* sendLog (index.js:520-541), called and not awaited.  logs[i] is the     *)
(* call made by task i: getItem('config') is issued at the call, then      *)
(* getItem('fcmToken'), then the log request is sent.                      *)
(***************************************************************************)
\* the call: sendId and tag are read, getItem('config') is issued
BeginSendLog(eventType, initial, ok) ==
    [NoLog EXCEPT !.ev = eventType, !.initial = initial, !.pc = "lg_config",
                  !.ok = ok, !.key = IF ok THEN store.config.apiKey ELSE Absent]

\* let localConfig = JSON.parse(await getItem('config')); getItem('fcmToken') is issued
SendLogReadToken(i) ==
    /\ logs[i].pc = "lg_config"
    /\ IF logs[i].ok
       THEN \E ok \in BOOLEAN :
            /\ Native(ok)
            /\ logs' = [logs EXCEPT ![i] =
                  [@ EXCEPT !.pc = "lg_token", !.ok = ok,
                            !.tok = getItem(store, "fcmToken", ok)]]
       ELSE logs' = [logs EXCEPT ![i] = [@ EXCEPT !.pc = "dead"]] /\ UNCHANGED faults
    /\ UNCHANGED <<config, store, platform, fbToken, initialOpen, listeners, tasks, limit>>

\* the request body reads localConfig.apiKey, which throws when the 'config' item
\* was null; else the log request is sent, not awaited
SendLogRequest(i) ==
    /\ logs[i].pc = "lg_token"
    /\ logs' = [logs EXCEPT ![i] =
          IF @.ok /\ @.key # Absent
          THEN [@ EXCEPT !.pc = "sent", !.note = "http:log"]
          ELSE [@ EXCEPT !.pc = "dead"]]
    /\ UNCHANGED <<config, store, platform, fbToken, initialOpen, listeners, tasks,
                   faults, limit>>

(***************************************************************************)
(* checkParams (index.js:82-93), setEmail (index.js:48-57) and setCallback *)
(* (index.js:64-70).                                                       *)
(***************************************************************************)
ConfigFields == {"apiKey", "userEmail", "bundleId", "callbackAfterTap"}

\* JavaScript null: typeof null is 'object'
Null == [type |-> "object", v |-> <<>>]

ValidEmail == Str(<<"a", "@", "b", ".", "c", "o">>)
BadEmail == Str(<<"a", "@", "@", "b">>)
OtherCallback == Fun(<<"f">>)

NoFields == [f \in ConfigFields |-> Absent]

\* the config objects the host passes to init
InitArguments ==
    { [NoFields EXCEPT !.apiKey = Str(<<"k">>)],
      [NoFields EXCEPT !.apiKey = Str(<<"k">>), !.userEmail = ValidEmail,
                       !.callbackAfterTap = OtherCallback],
      [NoFields EXCEPT !.apiKey = Num(<<"7">>)],
      [NoFields EXCEPT !.apiKey = Str(<<"k">>), !.userEmail = BadEmail],
      [NoFields EXCEPT !.apiKey = Str(<<"k">>), !.userEmail = Null],
      [NoFields EXCEPT !.apiKey = Str(<<"k">>), !.callbackAfterTap = Str(<<"x">>)] }

\* { ...this.#config, ...config }
Merge(c, given) == [f \in ConfigFields |-> IF given[f] = Absent THEN c[f] ELSE given[f]]

NoReason == ""

ValidationReasonWithoutCallbackCheck(c) ==
    IF c.apiKey.type # "string" THEN "Key must be string"
    ELSE IF RejectsEmail(c.userEmail) THEN "Email must be valid"
    ELSE NoReason

\* the first reject(...) that checkParams reaches, if any (index.js:85-88); the
\* later ones act on a promise that is settled already
ValidationReason(c) ==
    IF c.apiKey.type # "string" THEN "Key must be string"
    ELSE IF RejectsEmail(c.userEmail) THEN "Email must be valid"
    ELSE IF c.apiKey.type # "string" THEN "Bundle ID must be string"
    ELSE IF c.callbackAfterTap.type # "function" THEN "Callback must be function"
    ELSE NoReason

\* a call that has rejected synchronously goes on to issue its setItem; the
\* completion of that setItem finds the promise settled
AfterValidation(t, reason, ok) ==
    IF reason # NoReason
    THEN Settle(Did(t, "setItem", "config", ""), "rejected", reason)
    ELSE Goto(Did(t, "setItem", "config", ""), "in_setItem", ok)

\* init(config): checkParams merges, validates and issues setItem('config')
StartInit ==
    /\ CanStart(1)
    /\ \E given \in InitArguments : \E ok \in BOOLEAN :
        LET merged == Merge(config, given)
        IN  /\ Native(ok)
            /\ config' = merged
            /\ store' = [store EXCEPT !.config = IF ok THEN stringify(merged) ELSE @]
            /\ tasks' = [tasks EXCEPT ![NumStarted + 1] =
                  AfterValidation(Did(NewTask("init", merged), "step", "checkParams", ""),
                                  ValidationReason(merged), ok)]
    /\ UNCHANGED <<platform, fbToken, initialOpen, listeners, limit, logs>>

\* setItem('config') settles: checkParams resolves and the cold-start check
\* issues getInitialNotification(), or checkParams rejects and so does init
InitConfigSaved(i) ==
    /\ tasks[i].pc = "in_setItem"
    /\ IF tasks[i].ok
       THEN \E ok \in BOOLEAN :
            /\ Native(ok)
            /\ tasks' = [tasks EXCEPT ![i] =
                  Goto([Did(Did(@, "step", "checkIfOpenedByNotification", ""),
                            "firebase", "getInitialNotification", "")
                            EXCEPT !.tok = IF ok THEN initialOpen ELSE NULL],
                       "in_initial", ok)]
       ELSE /\ tasks' = [tasks EXCEPT ![i] = Settle(@, "rejected", "error")]
            /\ UNCHANGED faults
    /\ UNCHANGED <<config, store, platform, fbToken, initialOpen, listeners, limit, logs>>

(***************************************************************************)
(* createAndroidChannel (index.js:95-119), called by init with             *)
(* createChannelGroup = true, and createListeners (index.js:546-552).      *)
(***************************************************************************)
\* every one of the five events gets one more callback
createListeners(l) == [e \in DOMAIN l |-> l[e] + 1]

AttachedBy(t) == Count(t, "step", "createListeners")

\* the cold-start check has resolved: createAndroidChannel(true) runs.  On
\* android it issues createChannelGroup; on ios it resolves at once, the
\* listeners are attached and init resolves; on any other platform neither
\* branch is taken and its promise stays pending.
EnsureChannel(t, ok) ==
    LET u == Did(t, "step", "createAndroidChannel", "")
    IN  IF platform = "android"
        THEN Goto(Did(u, "firebase", "createChannelGroup", ""), "in_channel", ok)
        ELSE IF platform = "ios"
        THEN Settle(Did(u, "step", "createListeners", ""), "resolved", "")
        ELSE Finish(u)

ChannelOutcomeAttachingAnyway(t) ==
    IF t.ok
    THEN Settle(Did(t, "step", "createListeners", ""), "resolved", "")
    ELSE Settle(Did(t, "step", "createListeners", ""), "rejected",
                "Error when creating channel")

\* createChannelGroup settles: the listeners are attached and init resolves, or
\* init rejects
ChannelOutcome(t) ==
    IF t.ok
    THEN Settle(Did(t, "step", "createListeners", ""), "resolved", "")
    ELSE Settle(t, "rejected", "Error when creating channel")

InitChannelSettled(i) ==
    /\ tasks[i].pc = "in_channel"
    /\ tasks' = [tasks EXCEPT ![i] = ChannelOutcome(@)]
    /\ listeners' = IF AttachedBy(tasks'[i]) > AttachedBy(tasks[i])
                    THEN createListeners(listeners) ELSE listeners
    /\ UNCHANGED <<config, store, platform, fbToken, initialOpen, faults, limit, logs>>

(***************************************************************************)
(* checkIfOpenedByNotification (index.js:401-418).                         *)
(***************************************************************************)
NotificationOpenAlways(v) == TRUE

\* if (notificationOpen)
NotificationOpen(v) == v # NULL

\* notification.data of the notification with this id
NotificationData(n) == IF n = "n1" THEN "n1.data" ELSE "n2.data"

\* this.#config.callbackAfterTap(notification.data): a TypeError when the
\* property holds no function
CanCall(c) == c.callbackAfterTap.type = "function"

TapEffectsLogFirst(t, n, callback) ==
    Did(Did(t, "sendLog", "tap", ""), "callback", callback.v, NotificationData(n))

\* this.#config.callbackAfterTap(notification.data); this.sendLog('tap', notification)
\* (index.js:374-375 and 411-412)
TapEffects(t, n, callback) ==
    Did(Did(t, "callback", callback.v, NotificationData(n)), "sendLog", "tap", "")

\* getInitialNotification() settles.  With a notification,
\* removeDeliveredNotification is issued; with none, the check resolves and
\* createAndroidChannel runs.
InitColdStart(i) ==
    /\ tasks[i].pc = "in_initial"
    /\ IF ~tasks[i].ok
       THEN /\ tasks' = [tasks EXCEPT ![i] = Die(@)]
            /\ UNCHANGED <<faults, listeners>>
       ELSE IF NotificationOpen(tasks[i].tok)
       THEN \E ok \in BOOLEAN :
            /\ Native(ok)
            /\ tasks' = [tasks EXCEPT ![i] =
                  Goto(Did(@, "firebase", "removeDeliveredNotification", @.tok),
                       "in_remove", ok)]
            /\ UNCHANGED listeners
       ELSE \E ok \in BOOLEAN :
            /\ IF platform = "android" THEN Native(ok) ELSE ok /\ UNCHANGED faults
            /\ tasks' = [tasks EXCEPT ![i] = EnsureChannel(@, ok)]
            /\ listeners' = IF AttachedBy(tasks'[i]) > AttachedBy(tasks[i])
                            THEN createListeners(listeners) ELSE listeners
    /\ UNCHANGED <<config, store, platform, fbToken, initialOpen, limit, logs>>

\* removeDeliveredNotification settles: the tap callback is called with the
\* notification's data, sendLog('tap', notification, {initial: true}) is called
\* and not awaited, the check resolves and createAndroidChannel runs.  A failed
\* removal, or a callbackAfterTap that is no function, throws inside the check,
\* whose promise then stays pending.
InitTapReplay(i) ==
    /\ tasks[i].pc = "in_remove"
    /\ IF ~tasks[i].ok \/ ~CanCall(config)
       THEN /\ tasks' = [tasks EXCEPT ![i] =
                  Die(Did(@, "throw", IF @.ok THEN "TypeError" ELSE "error", ""))]
            /\ UNCHANGED <<faults, listeners, logs>>
       ELSE \E okLog \in BOOLEAN : \E ok \in BOOLEAN :
            LET nfail == (IF okLog THEN 0 ELSE 1)
                         + (IF platform = "android" /\ ~ok THEN 1 ELSE 0)
            IN  /\ platform # "android" => ok
                /\ faults + nfail <= MaxFaults
                /\ faults' = faults + nfail
                /\ logs' = [logs EXCEPT ![i] = BeginSendLog("tap", TRUE, okLog)]
                /\ tasks' = [tasks EXCEPT ![i] =
                      EnsureChannel(TapEffects(@, @.tok, config.callbackAfterTap), ok)]
                /\ listeners' = IF AttachedBy(tasks'[i]) > AttachedBy(tasks[i])
                                THEN createListeners(listeners) ELSE listeners
    /\ UNCHANGED <<config, store, platform, fbToken, initialOpen, limit>>

(***************************************************************************)
(* setEmail (index.js:48-57) and setCallback (index.js:64-70).             *)
(***************************************************************************)
EmailArguments == {ValidEmail, BadEmail}
CallbackArguments == {OtherCallback, Str(<<"x">>)}

\* setEmail(email): reject when the email is refused, and in either case store
\* it and issue setItem('config')
StartSetEmail ==
    /\ CanStart(1)
    /\ \E email \in EmailArguments : \E ok \in BOOLEAN :
        LET changed == [config EXCEPT !.userEmail = email]
            t == Did(NewTask("setEmail", email), "setItem", "config", "")
        IN  /\ Native(ok)
            /\ config' = changed
            /\ store' = [store EXCEPT !.config = IF ok THEN stringify(changed) ELSE @]
            /\ tasks' = [tasks EXCEPT ![NumStarted + 1] =
                  IF RejectsEmail(email)
                  THEN Settle(t, "rejected", "Email must be valid")
                  ELSE Goto(t, "se_setItem", ok)]
    /\ UNCHANGED <<platform, fbToken, initialOpen, listeners, limit, logs>>

\* setItem('config') settles: .then(res => resolve(res)).catch(err => reject(err))
SetEmailSaved(i) ==
    /\ tasks[i].pc = "se_setItem"
    /\ tasks' = [tasks EXCEPT ![i] =
          IF @.ok THEN Settle(@, "resolved", "") ELSE Settle(@, "rejected", "error")]
    /\ UNCHANGED <<config, store, platform, fbToken, initialOpen, listeners, faults,
                   limit, logs>>

\* setCallback(callback): reject when it is no function, and in either case
\* store it; resolve
SetCallback ==
    /\ CanStart(1)
    /\ \E callback \in CallbackArguments :
        /\ config' = [config EXCEPT !.callbackAfterTap = callback]
        /\ tasks' = [tasks EXCEPT ![NumStarted + 1] =
              IF callback.type # "function"
              THEN Settle(NewTask("setCallback", callback), "rejected",
                          "Callback must be a function")
              ELSE Settle(NewTask("setCallback", callback), "resolved", "")]
    /\ UNCHANGED <<store, platform, fbToken, initialOpen, listeners, faults, limit, logs>>

(***************************************************************************)
(* The configuration store and init, from the state after construction.    *)
(***************************************************************************)
Platforms == {"android", "ios", "web"}
Notifications == {"n1"}

InitStart ==
    /\ config = DefaultConfig
    /\ store = EmptyStore
    /\ platform \in Platforms
    /\ fbToken = NULL
    /\ initialOpen \in Notifications \cup {NULL}
    /\ listeners = NoListeners
    /\ tasks = [i \in TaskIds |-> NoTask]
    /\ logs = [i \in TaskIds |-> NoLog]
    /\ faults = 0
    /\ limit = [started |-> MaxTasks, inflight |-> MaxInFlight]

NextStart ==
    \/ StartInit
    \/ StartSetEmail
    \/ SetCallback
    \/ \E i \in TaskIds :
        \/ InitConfigSaved(i)
        \/ InitColdStart(i)
        \/ InitTapReplay(i)
        \/ InitChannelSettled(i)
        \/ SetEmailSaved(i)
        \/ SendLogReadToken(i)
        \/ SendLogRequest(i)

SpecStart == InitStart /\ [][NextStart]_vars

\* every external call that init waits for settles in the end: the step that
\* receives its outcome is taken
InitCallsSettle ==
    \A i \in TaskIds :
        /\ WF_vars(InitConfigSaved(i))
        /\ WF_vars(InitColdStart(i))
        /\ WF_vars(InitTapReplay(i))
        /\ WF_vars(InitChannelSettled(i))

SpecStartFair == InitStart /\ [][NextStart]_vars /\ InitCallsSettle

(***************************************************************************)
(* The notification-opened listener (index.js:367-377), in a process whose *)
(* init(config) has resolved.                                              *)
(***************************************************************************)
TapNotifications == {"n1", "n2"}

\* The user taps the notification n: the library calls every attached
\* notification-opened callback, each of which issues
\* removeDeliveredNotification.
NotificationOpenedEvent ==
    /\ listeners.opened >= 1
    /\ CanStart(listeners.opened)
    /\ \E n \in TapNotifications : \E oks \in [1..listeners.opened -> BOOLEAN] :
        LET nfail == Cardinality({m \in DOMAIN oks : ~oks[m]})
        IN  /\ faults + nfail <= MaxFaults
            /\ faults' = faults + nfail
            /\ tasks' = [i \in TaskIds |->
                  IF i \in (NumStarted + 1)..(NumStarted + listeners.opened)
                  THEN Goto(Did(NewTask("onNotificationOpened", n),
                                "firebase", "removeDeliveredNotification", n),
                            "op_remove", oks[i - NumStarted])
                  ELSE tasks[i]]
    /\ UNCHANGED <<config, store, platform, fbToken, initialOpen, listeners, limit, logs>>

\* removeDeliveredNotification settles: the tap callback is called with the
\* notification's data and sendLog('tap', notification) is called, not awaited.
\* A failed removal, or a callbackAfterTap that is no function, throws and ends
\* the handler.
NotificationOpenedHandle(i) ==
    /\ tasks[i].pc = "op_remove"
    /\ IF ~tasks[i].ok \/ ~CanCall(config)
       THEN /\ tasks' = [tasks EXCEPT ![i] =
                  Die(Did(@, "throw", IF @.ok THEN "TypeError" ELSE "error", ""))]
            /\ UNCHANGED <<faults, logs>>
       ELSE \E okLog \in BOOLEAN :
            /\ Native(okLog)
            /\ logs' = [logs EXCEPT ![i] = BeginSendLog("tap", FALSE, okLog)]
            /\ tasks' = [tasks EXCEPT ![i] =
                  Finish(TapEffects(@, @.arg, config.callbackAfterTap))]
    /\ UNCHANGED <<config, store, platform, fbToken, initialOpen, listeners, limit>>

InitTap ==
    /\ config = InitializedConfig
    /\ store = [EmptyStore EXCEPT !.config = stringify(InitializedConfig)]
    /\ platform \in {"android", "ios"}
    /\ fbToken = NULL
    /\ initialOpen = NULL
    /\ listeners = [e \in DOMAIN NoListeners |-> 1]
    /\ tasks = [i \in TaskIds |-> NoTask]
    /\ logs = [i \in TaskIds |-> NoLog]
    /\ faults = 0
    /\ limit = [started |-> MaxTasks, inflight |-> MaxInFlight]

NextTap ==
    \/ NotificationOpenedEvent
    \/ SetCallback
    \/ \E i \in TaskIds :
        \/ NotificationOpenedHandle(i)
        \/ SendLogReadToken(i)
        \/ SendLogRequest(i)

SpecTap == InitTap /\ [][NextTap]_vars

(***************************************************************************)
(* The renderer displayLocalNotification (index.js:425-462) and its        *)
(* callers: the background message handler (index.js:563-569), the message *)
(* listener (index.js:343-348), the notification listener                  *)
(* (index.js:360-365) and the application itself; and the                  *)
(* notification-displayed listener (index.js:350-358).                     *)
(***************************************************************************)
\* FCM messages: "m1" has a data field, "m0" has none
Messages == {"m1", "m0"}

\* notifications handed to the notification listener
ShownNotifications == {"n1"}

\* notification.data is an object
HasData(n) == n # "m0"

DataOnlyNever(dataOnly) == FALSE

\* the branch displayLocalNotification takes: dataOnly ? ... : ...
DataOnlyBranch(dataOnly) == dataOnly

\* let notID = dataOnly ? notification._messageId : notification._notificationId
NotificationId(n, dataOnly) ==
    IF DataOnlyBranch(dataOnly)
    THEN (IF n = "m1" THEN "m1._messageId" ELSE IF n = "m0" THEN "m0._messageId"
          ELSE "undefined")
    ELSE (IF n = "n1" THEN "n1._notificationId" ELSE "undefined")

\* the callback given to createAndroidChannel().then: the local notification is
\* built (a TypeError when the data-only branch reads the title of a message
\* without data) and displayNotification is issued
BuildAndDisplay(t, ok) ==
    IF DataOnlyBranch(t.flag = "dataOnly") /\ ~HasData(t.arg)
    THEN Die(Did(t, "throw", "TypeError", ""))
    ELSE Goto(Did(t, "firebase", "displayNotification",
                  NotificationId(t.arg, t.flag = "dataOnly")),
              "dl_display", ok)

\* displayLocalNotification(n, dataOnly) is called by task t: createAndroidChannel()
\* issues createChannel on Android and resolves at once on iOS
BeginRender(t, n, dataOnly, ok) ==
    LET r == [Did(t, "displayLocalNotification",
                  IF DataOnlyBranch(dataOnly) THEN "dataOnly" ELSE "notification", n)
                 EXCEPT !.arg = n,
                        !.flag = IF DataOnlyBranch(dataOnly) THEN "dataOnly"
                                 ELSE "notification"]
    IN  IF platform = "android"
        THEN Goto(Did(r, "firebase", "createChannel", ""), "dl_channel", ok)
        ELSE BuildAndDisplay(r, ok)

\* the task waits for a native call
AwaitsNative(t) == t.pc \in {"dl_channel", "dl_display"}

\* count callers start together, each calling displayLocalNotification(n, dataOnly)
Render(count, op, n, dataOnly) ==
    /\ count >= 1
    /\ CanStart(count)
    /\ \E oks \in [1..count -> BOOLEAN] :
        LET nfail == Cardinality({m \in 1..count : ~oks[m]})
        IN  /\ \A m \in 1..count :
                  AwaitsNative(BeginRender(NewTask(op, n), n, dataOnly, oks[m])) \/ oks[m]
            /\ faults + nfail <= MaxFaults
            /\ faults' = faults + nfail
            /\ tasks' = [i \in TaskIds |->
                  IF i \in (NumStarted + 1)..(NumStarted + count)
                  THEN BeginRender(NewTask(op, n), n, dataOnly, oks[i - NumStarted])
                  ELSE tasks[i]]
    /\ UNCHANGED <<config, store, platform, fbToken, initialOpen, listeners, limit, logs>>

\* the application calls displayLocalNotification(notification) or
\* displayLocalNotification(message, true)
DisplayLocalNotificationCall ==
    \/ \E n \in ShownNotifications : Render(1, "displayLocalNotification", n, FALSE)
    \/ Render(1, "displayLocalNotification", "m1", TRUE)

\* onNotification: every attached callback calls displayLocalNotification(notification)
NotificationEvent ==
    \E n \in ShownNotifications :
        Render(listeners.notification, "onNotification", n, FALSE)

\* onMessage: every attached callback calls displayLocalNotification(message, true)
MessageEvent ==
    Render(listeners.message, "onMessage", "m1", TRUE)

\* backgroundMessaging(message): message._data = message.data, the renderer is
\* called with dataOnly = true, and a resolved promise is returned
BackgroundMessage ==
    /\ CanStart(1)
    /\ \E m \in Messages : \E ok \in BOOLEAN :
        LET t == [BeginRender(NewTask("backgroundMessaging", m), m, TRUE, ok)
                     EXCEPT !.st = "resolved", !.val = ""]
        IN  /\ IF AwaitsNative(t) THEN Native(ok) ELSE ok /\ UNCHANGED faults
            /\ tasks' = [tasks EXCEPT ![NumStarted + 1] = t]
    /\ UNCHANGED <<config, store, platform, fbToken, initialOpen, listeners, limit, logs>>

\* createChannel settles: on success the notification is built and
\* displayNotification is issued; on failure the rejection reaches no handler
\* and nothing is displayed
RendererChannelSettled(i) ==
    /\ tasks[i].pc = "dl_channel"
    /\ IF tasks[i].ok
       THEN \E ok \in BOOLEAN :
            /\ IF AwaitsNative(BuildAndDisplay(tasks[i], ok))
               THEN Native(ok) ELSE ok /\ UNCHANGED faults
            /\ tasks' = [tasks EXCEPT ![i] = BuildAndDisplay(@, ok)]
       ELSE tasks' = [tasks EXCEPT ![i] = Die(@)] /\ UNCHANGED faults
    /\ UNCHANGED <<config, store, platform, fbToken, initialOpen, listeners, limit, logs>>

\* if (Platform.OS === 'ios') in the notification-displayed callback
LogsInListener == platform = "ios"

\* if (Platform.OS === 'android') after displayNotification
LogsInRenderer == platform = "android"

\* the handlers of the notification-displayed event for the display by task i
DisplayedHandlers(i) == (NumStarted + 1)..(NumStarted + listeners.displayed)

\* displayNotification settles.  On success the renderer calls
\* sendLog('display') on Android, and the library calls every attached
\* notification-displayed callback, which calls sendLog('display') on iOS.
\* On failure the error is printed and nothing else happens.
RendererDisplaySettled(i) ==
    /\ tasks[i].pc = "dl_display"
    /\ IF ~tasks[i].ok
       THEN /\ tasks' = [tasks EXCEPT ![i] = Finish(@)]
            /\ UNCHANGED <<faults, logs>>
       ELSE /\ NumStarted + listeners.displayed <= limit.started
            /\ \E oks \in [{i} \cup DisplayedHandlers(i) -> BOOLEAN] :
                LET logging == {j \in DOMAIN oks :
                                   IF j = i THEN LogsInRenderer ELSE LogsInListener}
                    nfail == Cardinality({j \in logging : ~oks[j]})
                IN  /\ \A j \in DOMAIN oks : j \in logging \/ oks[j]
                    /\ faults + nfail <= MaxFaults
                    /\ faults' = faults + nfail
                    /\ tasks' = [j \in TaskIds |->
                          IF j = i THEN Finish(Did(tasks[i], "displayed", "", ""))
                          ELSE IF j \in DisplayedHandlers(i)
                          THEN Finish(Did(NewTask("onNotificationDisplayed", tasks[i].arg),
                                          "event", "displayed", ToString(i)))
                          ELSE tasks[j]]
                    /\ logs' = [j \in TaskIds |->
                          IF j \in logging
                          THEN BeginSendLog("display", FALSE, oks[j])
                          ELSE logs[j]]
    /\ UNCHANGED <<config, store, platform, fbToken, initialOpen, listeners, limit>>

\* a process in which init(config) has resolved once or twice, on either platform
InitDisplay ==
    /\ config = InitializedConfig
    /\ store = [EmptyStore EXCEPT !.config = stringify(InitializedConfig)]
    /\ platform \in {"android", "ios"}
    /\ fbToken = NULL
    /\ initialOpen = NULL
    /\ \E inits \in {1, 2} :
        /\ listeners = [e \in DOMAIN NoListeners |-> inits]
        /\ limit = [started |-> MaxTasks + inits - 1, inflight |-> MaxInFlight]
    /\ tasks = [i \in TaskIds |-> NoTask]
    /\ logs = [i \in TaskIds |-> NoLog]
    /\ faults = 0

NextDisplay ==
    \/ DisplayLocalNotificationCall
    \/ NotificationEvent
    \/ MessageEvent
    \/ BackgroundMessage
    \/ \E i \in TaskIds :
        \/ RendererChannelSettled(i)
        \/ RendererDisplaySettled(i)
        \/ SendLogReadToken(i)
        \/ SendLogRequest(i)

SpecDisplay == InitDisplay /\ [][NextDisplay]_vars

(***************************************************************************)
(* Properties of the token lifecycle.                                      *)
(***************************************************************************)
GetTokenOps == {"getToken", "requestPermissionAndGetToken"}
TokenWriters == {"unsubscribe", "onTokenRefresh"}

\* task i has called getToken: directly, or after permission was granted
CalledGetToken(i) ==
    \/ tasks[i].op = "getToken"
    \/ /\ tasks[i].op = "requestPermissionAndGetToken"
       /\ Count(tasks[i], "permission", "Authorized") = 1

\* b started after a had resolved, and every unsubscribe and every token-refresh
\* handler either stopped before a started or started after b stopped
InSequence(a, b) ==
    /\ CalledGetToken(a)
    /\ CalledGetToken(b)
    /\ tasks[a].st = "resolved"
    /\ a \in tasks[b].after
    /\ \A u \in TaskIds :
          tasks[u].op \in TokenWriters => (u \in tasks[a].after \/ b \in tasks[u].after)

\* C1: of two getToken calls in sequence (the second started after the first
\* resolved, no unsubscribe and no token refresh at work in between) the second
\* never asks the push library for a token, never sends a register request and
\* never rejects; when it settles it resolves with the token the first resolved
\* with, and it stops unsettled only when one of its storage calls failed.
C1_SecondGetTokenUsesCache ==
    \A a, b \in TaskIds :
        InSequence(a, b) =>
            /\ Count(tasks[b], "firebase", "getToken") = 0
            /\ Count(tasks[b], "http", "register") = 0
            /\ tasks[b].st # "rejected"
            /\ tasks[b].st = "resolved" => tasks[b].val = tasks[a].val
            /\ Stopped(b) /\ tasks[b].ok => tasks[b].st = "resolved"

\* the first call obtained a token and registered it; the second has resolved
C1_Witness ==
    \E a, b \in TaskIds :
        /\ InSequence(a, b)
        /\ Count(tasks[a], "http", "register") = 1
        /\ tasks[b].st = "resolved"
        /\ tasks[b].val \in Tokens

UpdatesSent(h) == Count(tasks[h], "http", "update")

\* C2 as stated: every listener invocation that has run to its end sent exactly
\* one update request when the new token differed from the cached token and none
\* when they were equal.  The cached token is the one the handler read, or, when
\* it read none, the one in the store (the handler is the last task started and
\* nothing has written since).  Stated for the runs in which no native call fails.
C2_UpdateIffTokenDiffers ==
    \A h \in TaskIds :
        (tasks[h].op = "onTokenRefresh" /\ tasks[h].pc = "done" /\ NumStarted = h
         /\ faults = 0) =>
            LET cached == IF IsSubscribedFlag(tasks[h].flag)
                          THEN tasks[h].tok ELSE store.fcmToken
            IN  UpdatesSent(h) = IF cached # tasks[h].arg THEN 1 ELSE 0

\* C2, amended: a listener invocation sends exactly one update request when it
\* ran to its end, read the subscribed flag 'true' and read a cached token that
\* differs from the new one; otherwise (flag not 'true', tokens equal, still at
\* work, or cut short by a failed storage or device-info call) it has sent none.
C2_UpdateIffSubscribedAndTokenDiffers ==
    \A h \in TaskIds :
        tasks[h].op = "onTokenRefresh" =>
            UpdatesSent(h) =
                IF /\ tasks[h].pc = "done"
                   /\ IsSubscribedFlag(tasks[h].flag)
                   /\ tasks[h].tok # tasks[h].arg
                THEN 1 ELSE 0

\* one handler has sent its update, for a token that replaced a cached one
C2_Witness ==
    \E h \in TaskIds :
        /\ tasks[h].op = "onTokenRefresh"
        /\ tasks[h].pc = "done"
        /\ tasks[h].tok \in Tokens
        /\ tasks[h].tok # tasks[h].arg
        /\ UpdatesSent(h) = 1
        /\ store.fcmToken = tasks[h].arg

\* an unsubscribe whose read of the cache has returned no token
NoTokenUnsubscribe(u) ==
    /\ tasks[u].op = "unsubscribe"
    /\ Count(tasks[u], "firebase", "deleteToken") = 1
    /\ tasks[u].tok \notin Tokens

checkIfSubscribed == store.isSubscribed = "true"

\* task i overlapped no other task
RanAlone(i) ==
    \A j \in TaskIds :
        (Started(j) /\ j # i) => (j \in tasks[i].after \/ i \in tasks[j].after)

\* the DELETE requests of u: one, carrying the token u read from the cache
OneDeleteOfCachedToken(u) ==
    /\ Count(tasks[u], "http", "delete") = 1
    /\ \A n \in 1..Len(tasks[u].eff) :
          tasks[u].eff[n].k = "http" => tasks[u].eff[n].y = tasks[u].tok

\* an unsubscribe that found a token cached, overlapped no other task and resolved
CachedTokenUnsubscribe(u) ==
    /\ tasks[u].op = "unsubscribe"
    /\ tasks[u].tok \in Tokens
    /\ tasks[u].st = "resolved"
    /\ RanAlone(u)

\* C11: once an unsubscribe that found a token cached has resolved, it has sent
\* exactly one DELETE request, carrying that token; until another task starts
\* the cache holds no token and the subscribed flag is 'false'
\* (checkIfSubscribed is false); and a getToken that follows it asks the push
\* library for a token before it settles and, when it resolves, has sent one
\* register request for the token it resolves with.
C11_UnsubscribeClearsAndGetTokenRegistersAnew ==
    \A u \in TaskIds :
        CachedTokenUnsubscribe(u) =>
            /\ OneDeleteOfCachedToken(u)
            /\ NumStarted = u =>
                  (store.fcmToken = NULL /\ store.isSubscribed = "false"
                   /\ ~checkIfSubscribed)
            /\ \A g \in TaskIds :
                  (g = u + 1 /\ CalledGetToken(g) /\ RanAlone(g)) =>
                      /\ (Stopped(g) /\ tasks[g].ok) =>
                            Count(tasks[g], "firebase", "getToken") = 1
                      /\ tasks[g].st = "resolved" =>
                            /\ Count(tasks[g], "http", "register") = 1
                            /\ tasks[g].val \in Tokens
                            /\ \E n \in 1..Len(tasks[g].eff) :
                                  /\ tasks[g].eff[n].k = "http"
                                  /\ tasks[g].eff[n].y = tasks[g].val
                      /\ tasks[g].st = "rejected" => tasks[g].val = "false"

\* unsubscribe has deleted the cached token "t1" and the getToken after it has
\* registered a token obtained from the library
C11_Witness ==
    \E u, g \in TaskIds :
        /\ CachedTokenUnsubscribe(u)
        /\ tasks[u].tok = "t1"
        /\ g = u + 1
        /\ tasks[g].op = "getToken"
        /\ tasks[g].st = "resolved"
        /\ Count(tasks[g], "http", "register") = 1
        /\ store.fcmToken = tasks[g].val

\* C12: the register request is neither awaited nor retried.  A getToken that
\* has sent it has resolved, in the same step, with the token it obtained, while
\* the request is still pending; it sends at most one.  When the request later
\* answers or fails, the task's promise, its calls and the store stay as they
\* are.  A later getToken in sequence, the token still cached, sends no register
\* request, whether the first one's request is pending, answered or failed.
C12_RegisterNotAwaitedNotRetried ==
    /\ [](\A g \in TaskIds :
            tasks[g].op \in GetTokenOps =>
                /\ Count(tasks[g], "http", "register") <= 1
                /\ Count(tasks[g], "http", "register") = 1 <=> tasks[g].http # "none"
                /\ Count(tasks[g], "http", "register") = 1 =>
                      (tasks[g].st = "resolved" /\ tasks[g].val = tasks[g].tok
                       /\ tasks[g].tok \in Tokens)
                /\ \A b \in TaskIds :
                      InSequence(g, b) => Count(tasks[b], "http", "register") = 0)
    /\ [][\A g \in TaskIds :
            /\ (tasks[g].op \in GetTokenOps /\ tasks[g].http = "none"
                    /\ tasks'[g].http # "none")
                 => (tasks'[g].http = "pending" /\ tasks[g].st = "pending"
                     /\ tasks'[g].st = "resolved")
            /\ (tasks[g].http = "pending" /\ tasks'[g].http # "pending")
                 => (tasks'[g] = [tasks[g] EXCEPT !.http = tasks'[g].http]
                     /\ store' = store)]_vars

\* the register request of a resolved getToken has failed, and a later getToken
\* has resolved with the same token from the cache
C12_Witness ==
    \E a, b \in TaskIds :
        /\ InSequence(a, b)
        /\ tasks[a].http = "failed"
        /\ Count(tasks[a], "http", "register") = 1
        /\ tasks[b].st = "resolved"
        /\ tasks[b].val = tasks[a].val

Quiescent == NumInFlight = 0

\* g obtained a token from the library, cached it and sent the register request
Registered(g) ==
    /\ tasks[g].op \in GetTokenOps
    /\ Count(tasks[g], "http", "register") = 1

\* C6 as stated, for the runs in which no native call fails: whenever no
\* operation is in flight, the persisted flag is 'true' exactly when some
\* getToken has registered and no unsubscribe has completed since.
C6_FlagTracksRegistration ==
    (Quiescent /\ faults = 0) =>
        (store.isSubscribed = "true" <=>
            \E g \in TaskIds :
                /\ Registered(g)
                /\ \A u \in TaskIds :
                      (tasks[u].op = "unsubscribe" /\ tasks[u].st = "resolved") => u < g)

Permissions(r) ==
    Count(tasks[r], "permission", "Authorized") + Count(tasks[r], "permission", "Denied")

\* C9: requestPermission settles at most once, with 'Authorized' or 'Denied';
\* when it settles 'Denied', requestPermissionAndGetToken rejects with 'Denied'
\* having made no call but the permission request (no setItem of the flag, no
\* token request, no register request), and that step leaves the store and the
\* library's token as they were.
C9_DeniedStopsBeforeGetToken ==
    /\ [](\A r \in TaskIds :
            tasks[r].op = "requestPermissionAndGetToken" =>
                /\ Permissions(r) = IF tasks[r].pc = "rp_request" THEN 0 ELSE 1
                /\ Count(tasks[r], "permission", "Denied") = 1 =>
                      /\ tasks[r].st = "rejected"
                      /\ tasks[r].val = "Denied"
                      /\ Len(tasks[r].eff) = 2
                /\ Count(tasks[r], "permission", "Authorized") = 1 =>
                      Count(tasks[r], "setItem", "isSubscribed") = 1)
    /\ [][\A r \in TaskIds :
            (tasks[r].pc = "rp_request" /\ ~tasks[r].ok /\ tasks'[r].pc # "rp_request")
                => (store' = store /\ fbToken' = fbToken)]_vars

\* permission was denied and the call has rejected
C9_Witness ==
    \E r \in TaskIds :
        /\ tasks[r].op = "requestPermissionAndGetToken"
        /\ tasks[r].st = "rejected"
        /\ tasks[r].val = "Denied"
        /\ store.isSubscribed = NULL

(***************************************************************************)
(* Properties of init and the configuration store.                         *)
(***************************************************************************)
IsInit(i) == tasks[i].op = "init"

ValidationReasons == {"Key must be string", "Email must be valid",
                      "Bundle ID must be string", "Callback must be function"}

RejectedByValidation(i) ==
    tasks[i].st = "rejected" /\ tasks[i].val \in ValidationReasons

\* the three conditions the claim lists; a value is non-empty when its text is
InvalidAsClaimed(c) ==
    \/ c.apiKey.type # "string"
    \/ (Len(c.userEmail.v) > 0 /\ ~validateEmail(c.userEmail))
    \/ c.callbackAfterTap.type # "function"

\* C5 as stated, for the runs in which no native call fails: init rejects with
\* one of the validation reasons whenever the merged config has a non-string
\* apiKey, a non-empty userEmail that fails the email check or a
\* callbackAfterTap that is no function, and does not reject with a validation
\* reason when none of the three holds.
C5_RejectsIffOneOfThree ==
    faults = 0 =>
        \A i \in TaskIds :
            IsInit(i) => (RejectedByValidation(i) <=> InvalidAsClaimed(tasks[i].arg))

\* C5, amended: the same with a fourth condition, a userEmail that is not a
\* string (null, a number): init rejects with a validation reason exactly when
\* one of the four holds, and then at once; any other rejection of init carries
\* the storage error or 'Error when creating channel'.
C5_RejectsIffInvalid ==
    \A i \in TaskIds :
        IsInit(i) =>
            /\ RejectedByValidation(i) <=>
                  (InvalidAsClaimed(tasks[i].arg) \/ tasks[i].arg.userEmail.type # "string")
            /\ (tasks[i].st = "rejected" /\ ~RejectedByValidation(i)) =>
                  tasks[i].val \in {"error", "Error when creating channel"}

\* an init whose callbackAfterTap was a string has rejected, with its reason
C5_Witness ==
    \E i \in TaskIds :
        /\ IsInit(i)
        /\ tasks[i].arg.callbackAfterTap.type # "function"
        /\ tasks[i].arg.apiKey.type = "string"
        /\ ~RejectsEmail(tasks[i].arg.userEmail)
        /\ tasks[i].st = "rejected"
        /\ tasks[i].val = "Callback must be function"

\* C7 as stated: however many times init is called, each of the five events
\* has at most one listener attached, and exactly one once an init has resolved.
C7_ListenersAttachedOnce ==
    \A e \in DOMAIN listeners :
        /\ listeners[e] <= 1
        /\ (\E i \in TaskIds : IsInit(i) /\ tasks[i].st = "resolved") => listeners[e] = 1

InitSteps == <<"checkParams", "checkIfOpenedByNotification",
               "createAndroidChannel", "createListeners">>

IsStep(e) == e.k = "step"

\* the steps of init that task i has started, in order
StepsOf(t) == SelectSeq(t.eff, IsStep)

StepsInOrder(t) ==
    LET st == StepsOf(t)
    IN  /\ Len(st) <= Len(InitSteps)
        /\ \A n \in 1..Len(st) : st[n].x = InitSteps[n]

\* C8: the steps an init call has started are a prefix of validate, cold-start
\* check, ensure channel, attach listeners; a step is started only by an init
\* that is still pending and whose awaited call has succeeded; an init that has
\* rejected has attached no listener, one that has attached them has resolved,
\* and every event has as many listeners as init calls have attached.
C8_StepsInOrder ==
    /\ [](\A i \in TaskIds :
            IsInit(i) =>
                /\ StepsInOrder(tasks[i])
                /\ tasks[i].st = "rejected" => AttachedBy(tasks[i]) = 0
                /\ AttachedBy(tasks[i]) = 1 => tasks[i].st = "resolved"
                /\ \A e \in DOMAIN listeners :
                      listeners[e] =
                          Cardinality({j \in TaskIds : AttachedBy(tasks[j]) = 1}))
    /\ [][\A i \in TaskIds :
            (IsInit(i) /\ Len(StepsOf(tasks'[i])) > Len(StepsOf(tasks[i])))
                => (tasks[i].ok /\ tasks[i].st = "pending"
                    /\ ValidationReason(tasks[i].arg) = NoReason)]_vars

\* one init has run its four steps and resolved, and one has rejected when the
\* channel could not be created, attaching nothing
C8_Witness ==
    \E i, j \in TaskIds :
        /\ IsInit(i) /\ IsInit(j)
        /\ tasks[i].st = "resolved"
        /\ Len(StepsOf(tasks[i])) = 4
        /\ tasks[j].st = "rejected"
        /\ tasks[j].val = "Error when creating channel"
        /\ Len(StepsOf(tasks[j])) = 3
        /\ listeners.tokenRefresh = 1

CallbackCalls(t) == Cardinality({n \in 1..Len(t.eff) : t.eff[n].k = "callback"})

CallbackCallsWith(t, y) ==
    Cardinality({n \in 1..Len(t.eff) : t.eff[n].k = "callback" /\ t.eff[n].y = y})

\* C4 as stated, for the runs in which no native call fails: in a process
\* launched by a notification tap, the callback is called with {initial: true}
\* at most once, and once when an init has resolved; in a process not launched
\* by one, init never calls it.
C4_CallbackWithInitialFlagOnce ==
    faults > 0 \/
    LET flagged == {i \in TaskIds :
                      IsInit(i) /\ CallbackCallsWith(tasks[i], "{initial: true}") > 0}
    IN  IF initialOpen = NULL
        THEN \A i \in TaskIds : IsInit(i) => CallbackCalls(tasks[i]) = 0
        ELSE /\ Cardinality(flagged) <= 1
             /\ (\E i \in TaskIds : IsInit(i) /\ tasks[i].st = "resolved")
                    => Cardinality(flagged) = 1

\* an init call has replayed the tap: removal succeeded and the callback was called
Replayed(i) == IsInit(i) /\ CallbackCalls(tasks[i]) = 1

\* C4, amended: every init call whose cold-start check finds an initial
\* notification, removes it and finds callbackAfterTap to be a function calls
\* the tap callback exactly once, with the notification's data (not with
\* {initial: true}), and calls sendLog('tap') once with initial: true; so an
\* init that resolves in a process launched by a notification has done so once.
\* An init call that finds no initial notification, or whose removal fails,
\* calls neither.
C4_ColdStartReplaysTapOncePerInit ==
    \A i \in TaskIds :
        IsInit(i) =>
            /\ CallbackCalls(tasks[i]) <= 1
            /\ CallbackCalls(tasks[i]) =
                  CallbackCallsWith(tasks[i], NotificationData(initialOpen))
            /\ Replayed(i) <=> (logs[i].ev = "tap" /\ logs[i].initial)
            /\ Replayed(i) <=>
                  (initialOpen # NULL
                   /\ Count(tasks[i], "firebase", "removeDeliveredNotification") = 1
                   /\ tasks[i].pc # "in_remove"
                   /\ Count(tasks[i], "throw", "error") = 0
                   /\ Count(tasks[i], "throw", "TypeError") = 0)
            /\ initialOpen = NULL => (~Replayed(i) /\ logs[i].ev = "none")
            /\ (initialOpen # NULL /\ tasks[i].st = "resolved") => Replayed(i)

\* an init in a process launched by a tap has resolved, having called the
\* callback with the notification's data; its tap log has been sent
C4_Witness ==
    \E i \in TaskIds :
        /\ initialOpen = "n1"
        /\ tasks[i].st = "resolved"
        /\ CallbackCallsWith(tasks[i], "n1.data") = 1
        /\ logs[i].pc = "sent"
        /\ logs[i].initial

(***************************************************************************)
(* Properties of the notification-opened listener.                         *)
(***************************************************************************)
IsTapHandler(h) == tasks[h].op = "onNotificationOpened"

NotThrow(e) == e.k # "throw"

\* what the handler has done, leaving out the exception that ended it
Performed(t) == SelectSeq(t.eff, NotThrow)

\* removal of the delivered notification, then the callback with the
\* notification's data, then the call of sendLog('tap')
TapSequence(p, n) ==
    /\ Len(p) <= 3
    /\ Len(p) >= 1 =>
          (p[1].k = "firebase" /\ p[1].x = "removeDeliveredNotification" /\ p[1].y = n)
    /\ Len(p) >= 2 => (p[2].k = "callback" /\ p[2].y = NotificationData(n))
    /\ Len(p) >= 3 => (p[3].k = "sendLog" /\ p[3].x = "tap")

IsBackgroundHandler(b) == tasks[b].op = "backgroundMessaging"

\* the calls of displayNotification by task t, and the id each one carried
DisplayCalls(t) ==
    {n \in 1..Len(t.eff) : t.eff[n].k = "firebase" /\ t.eff[n].x = "displayNotification"}

\* C13: the background message handler, given a message with a data field, has
\* called the renderer exactly once, with the data-only branch selected (the
\* notification it displays carries the message's id), and the promise it
\* returned is resolved in every state: while the channel or the display is
\* pending, and when either has failed.
C13_BackgroundHandlerRendersDataOnly ==
    \A b \in TaskIds :
        (IsBackgroundHandler(b) /\ HasData(tasks[b].arg)) =>
            /\ Count(tasks[b], "displayLocalNotification", "dataOnly") = 1
            /\ Count(tasks[b], "displayLocalNotification", "notification") = 0
            /\ tasks[b].eff[1].k = "displayLocalNotification"
            /\ tasks[b].eff[1].y = tasks[b].arg
            /\ tasks[b].st = "resolved"
            /\ Cardinality(DisplayCalls(tasks[b])) <= 1
            /\ \A n \in DisplayCalls(tasks[b]) :
                  tasks[b].eff[n].y = NotificationId(tasks[b].arg, TRUE)

\* the handler has resolved for the message "m1" although its display failed
C13_Witness ==
    \E b \in TaskIds :
        /\ IsBackgroundHandler(b)
        /\ tasks[b].arg = "m1"
        /\ tasks[b].st = "resolved"
        /\ tasks[b].pc = "done"
        /\ Cardinality(DisplayCalls(tasks[b])) = 1
        /\ Count(tasks[b], "displayed", "") = 0

IsRenderer(r) == Count(tasks[r], "displayLocalNotification", "dataOnly")
                 + Count(tasks[r], "displayLocalNotification", "notification") = 1

\* the displayed-listener invocations for the display made by r
HandlersOf(r) ==
    {h \in TaskIds : /\ tasks[h].op = "onNotificationDisplayed"
                     /\ tasks[h].eff[1].y = ToString(r)}

\* the sendLog('display') calls for the display made by r
RendererLogs(r) == IF logs[r].ev = "display" THEN 1 ELSE 0
ListenerLogs(r) == Cardinality({h \in HandlersOf(r) : logs[h].ev = "display"})

\* C14 as stated: a display that succeeded has exactly one 'display' log, made
\* by the listener on iOS and by the renderer on Android; a display that failed
\* has none, and displayNotification is called at most once per renderer call.
C14_OneDisplayLogPerDisplay ==
    \A r \in TaskIds :
        IsRenderer(r) =>
            /\ Cardinality(DisplayCalls(tasks[r])) <= 1
            /\ RendererLogs(r) + ListenerLogs(r) =
                  IF Count(tasks[r], "displayed", "") = 1 THEN 1 ELSE 0
            /\ platform = "ios" => RendererLogs(r) = 0
            /\ platform = "android" => ListenerLogs(r) = 0

(***************************************************************************)
(* Properties of the configuration under rejected calls.                   *)
(***************************************************************************)
\* a string apiKey, a userEmail that is empty or valid, a callable callback
ValidConfig(c) ==
    /\ c.apiKey.type = "string"
    /\ ~RejectsEmail(c.userEmail)
    /\ c.callbackAfterTap.type = "function"

\* the persisted config, once written: as above, the callback being left out
ValidPersisted(c) ==
    c # NullConfig => (c.apiKey.type = "string" /\ ~RejectsEmail(c.userEmail)
                       /\ c.callbackAfterTap = Absent)

\* C15 as stated: the config in use and the persisted config are valid in every
\* state, whatever init, setEmail and setCallback calls were made and rejected.
\* Stated for the runs in which no native call fails.
C15_RejectedValidationKeepsConfig ==
    faults = 0 => (ValidConfig(config) /\ ValidPersisted(store.config))

(***************************************************************************)
(* Properties of overlapping token operations.                             *)
(***************************************************************************)
\* a and b were both at work at some moment
Overlapping(a, b) ==
    /\ a # b
    /\ Started(a) /\ Started(b)
    /\ a \notin tasks[b].after
    /\ b \notin tasks[a].after

NoTokenWriterStarted == \A u \in TaskIds : tasks[u].op \notin TokenWriters

\* C16 as stated: of two overlapping getToken calls on an install with no token
\* cached (and no unsubscribe and no token refresh in the run), at most one sends
\* a register request, and when both have resolved they have resolved with the
\* same token, the one in the cache.  Stated for the runs in which no native
\* call fails.
C16_OverlappingGetTokenRegistersOnce ==
    (faults = 0 /\ NoTokenWriterStarted) =>
        \A a, b \in TaskIds :
            (Overlapping(a, b) /\ CalledGetToken(a) /\ CalledGetToken(b)) =>
                /\ Count(tasks[a], "http", "register")
                   + Count(tasks[b], "http", "register") <= 1
                /\ (tasks[a].st = "resolved" /\ tasks[b].st = "resolved") =>
                      (tasks[a].val = tasks[b].val /\ tasks[a].val = store.fcmToken)

\* task j has written the token t to the cache
WroteToken(j, t) ==
    \E n \in 1..Len(tasks[j].eff) :
        /\ tasks[j].eff[n].k = "setItem"
        /\ tasks[j].eff[n].x = "fcmToken"
        /\ tasks[j].eff[n].y = t

\* unsubscribe u has resolved having sent the DELETE request for the token t
ReportedDeleted(u, t) ==
    /\ tasks[u].op = "unsubscribe"
    /\ tasks[u].st = "resolved"
    /\ tasks[u].tok = t
    /\ Count(tasks[u], "http", "delete") = 1

\* C17 as stated: whenever every unsubscribe, getToken and token-refresh handler
\* has completed, however they interleaved, the store holds no cached token
\* while the subscribed flag is 'false', and the flag is not 'true' over a token
\* that an unsubscribe has reported as deleted (unless that token was cached
\* anew by a task at work after that unsubscribe started).  Stated for the runs
\* in which no native call fails.
C17_StoreConsistentAfterOverlap ==
    (Quiescent /\ faults = 0) =>
        /\ ~(store.fcmToken \in Tokens /\ store.isSubscribed = "false")
        /\ \A u \in TaskIds :
              (ReportedDeleted(u, store.fcmToken) /\ store.isSubscribed = "true") =>
                  \E j \in TaskIds :
                      /\ j # u
                      /\ j \notin tasks[u].after
                      /\ WroteToken(j, store.fcmToken)

(***************************************************************************)
(* Termination of init.                                                    *)
(***************************************************************************)
\* C18 as stated: when every external call that init makes settles, every init
\* call settles: its promise is resolved or rejected in the end.
C18_InitEventuallySettles ==
    \A i \in TaskIds :
        (tasks[i].op = "init") ~> (tasks[i].st \in {"resolved", "rejected"})

====
